---- MODULE Spec2Model ----
(***************************************************************************)
(* Model of MediaPlayer.dependencies.ProtectionController                  *)
(* (app/js/streaming/protection/ProtectionController.js): key-system       *)
(* selection, key-session creation and the license request pipeline.       *)
(*                                                                         *)
(* The controller is single-threaded: every handler body runs to           *)
(* completion, so each handler is one action.  The protection model (the   *)
(* platform gateway) and the protection extensions are collaborators; the  *)
(* gateway's in-flight requests and its session list are part of the       *)
(* state, the results of the extensions' pure functions are inputs.        *)
(***************************************************************************)
EXTENDS Integers, Sequences, FiniteSets, TLC

(* ------------------------------ bounds --------------------------------- *)
\* bounds on the calls and events that add to the state (selection triggers,
\* direct createKeySession calls, key messages and teardowns): MaxOps for the
\* selection and session operations, MaxLicOps for the license pipeline
MaxOps == 3
MaxLicOps == 4
MaxSesOps == 3

(* --------------------------- value domains ----------------------------- *)
Undefined == "undefined"
Null == "null"

\* the key systems known to the protection extensions (systemString)
KS == {"A", "B"}

\* initialization data: a container holding, per key system, the bytes of
\* that system's box (0: the container has no box for the system)
I1 == [A |-> 1, B |-> 1]
I2 == [A |-> 1, B |-> 2]
I3 == [A |-> 1, B |-> 0]
InitDatas == {I1, I2, I3}

Cand(ks, initData, cdmData) == [ks |-> ks, initData |-> initData, cdmData |-> cdmData]

\* candidate lists (supportedKS) the extensions can return for a need-key
\* event or for the manifest's ContentProtection elements
Batches ==
  { << Cand("A", I1, "c1"), Cand("B", I1, "c1") >>,
    << Cand("A", I2, "c1"), Cand("B", I2, "c2") >>,
    << Cand("B", I3, "c2"), Cand("B", I2, "c1") >> }

SessionTypes == {"temporary", "persistent-license"}

VARIABLES
  keySystem,           \* this.keySystem: Undefined, Null or a member of KS
  pendingNeedKeyData,  \* queue of candidate lists
  initialized,         \* init() has run
  xhrLicense,          \* 0 (null) or the id of the tracked XMLHttpRequest
  protDataSet,         \* protection data by system string (defined: it was set)
  sessionType,         \* ks.sessionType of every key system object
  setUp,               \* this.protectionModel is defined
  needKeySub,          \* the controller is subscribed to need-key
  subsAccess,          \* one-shot handlers of ENAME_KEY_SYSTEM_ACCESS_COMPLETE
  subsSelected,        \* one-shot handlers of ENAME_KEY_SYSTEM_SELECTED
  accessReqs,          \* gateway: requestKeySystemAccess calls in flight
  selectReqs,          \* gateway: selectKeySystem calls in flight
  pmKeySystem,         \* gateway: protectionModel.keySystem
  sessions,            \* gateway: session tokens
  xhrs,                \* the XMLHttpRequest objects created so far
  op,                  \* history: the handler that ran last
  out,                 \* history: what the last handler emitted, in order
  replayed,            \* history: per queued batch, times the replay loop visited it
  enqSel,              \* history: per queued batch, nSel when it was queued
  nSel,                \* history: successful system selections so far
  nFail,               \* history: failed negotiations so far
  epoch,               \* history: teardown calls so far
  csLog,               \* history: per initialization data, createSession calls with it
  nTrig,               \* history: selectKeySystem calls so far (handler ids)
  nOps,                \* history: bounded calls and events so far
  args,                \* history: what the extensions or the gateway handed to the
                       \* last handler
  askedType,           \* history: the type of the last setSessionType call made
                       \* while a key system was selected ("none": no such call)
  attached             \* history: the last setMediaElement call that named an
                       \* element or null named an element, and no teardown followed

vars == << keySystem, pendingNeedKeyData, initialized, xhrLicense, protDataSet,
           sessionType, setUp, needKeySub, subsAccess, subsSelected, accessReqs,
           selectReqs, pmKeySystem, sessions, xhrs, op, out, replayed, enqSel,
           nSel, nFail, epoch, csLog, nTrig, nOps, args, askedType, attached >>

(* ------------------------- sequence helpers ---------------------------- *)
RemoveAt(s, i) == SubSeq(s, 1, i - 1) \o SubSeq(s, i + 1, Len(s))

\* the loop without the comparison of the systems: the first candidate
FirstMatch_noCompare(supportedKS, ks) == IF Len(supportedKS) > 0 THEN 1 ELSE 0

\* index of the first candidate of the list whose system is ks (0: none);
\* the loops at 121-157 and 208-213 stop at the first match
FirstMatch(supportedKS, ks) ==
  IF \E i \in 1..Len(supportedKS) : supportedKS[i].ks = ks
  THEN CHOOSE i \in 1..Len(supportedKS) :
         /\ supportedKS[i].ks = ks
         /\ \A j \in 1..(i - 1) : supportedKS[j].ks # ks
  ELSE 0

(* --------------------- the state the handlers change ------------------- *)
World ==
  [ keySystem |-> keySystem, pendingNeedKeyData |-> pendingNeedKeyData,
    xhrLicense |-> xhrLicense, subsAccess |-> subsAccess,
    subsSelected |-> subsSelected, accessReqs |-> accessReqs,
    selectReqs |-> selectReqs, sessions |-> sessions, xhrs |-> xhrs,
    out |-> << >>, replayed |-> replayed, enqSel |-> enqSel, nSel |-> nSel,
    nFail |-> nFail, csLog |-> csLog, args |-> << >>,
    askedType |-> askedType, attached |-> attached ]

Commit(w, name) ==
  /\ keySystem' = w.keySystem
  /\ pendingNeedKeyData' = w.pendingNeedKeyData
  /\ xhrLicense' = w.xhrLicense
  /\ subsAccess' = w.subsAccess
  /\ subsSelected' = w.subsSelected
  /\ accessReqs' = w.accessReqs
  /\ selectReqs' = w.selectReqs
  /\ sessions' = w.sessions
  /\ xhrs' = w.xhrs
  /\ out' = w.out
  /\ replayed' = w.replayed
  /\ enqSel' = w.enqSel
  /\ nSel' = w.nSel
  /\ nFail' = w.nFail
  /\ csLog' = w.csLog
  /\ args' = w.args
  /\ askedType' = w.askedType
  /\ attached' = w.attached
  /\ op' = name

Emit(w, e) == [w EXCEPT !.out = Append(@, e)]

\* eventBus.dispatchEvent: the application-facing event stream
PublicEvent(type, error, data) ==
  [t |-> "event", type |-> type, error |-> error, data |-> data]

\* this.notify(name, ...): the controller's internal notification channel
Notification(name, code, data) ==
  [t |-> "notify", name |-> name, code |-> code, data |-> data]

ProtectionError(code, data) == Notification("protectionError", code, data)

OutOf(tag) == SelectSeq(out, LAMBDA e : e.t = tag)

(* ------------------------------ gateway -------------------------------- *)
\* protectionModel.getAllInitData(): the initialization data of the
\* sessions the gateway holds (requested or open)
Listed(s) == s.state \in {"pending", "open"}

getAllInitData(sess) ==
  LET live == SelectSeq(sess, Listed)
  IN  [i \in 1..Len(live) |-> live[i].initData]

\* protectionExt.initDataEquals: byte equality
initDataEquals(a, b) == a = b

\* CommonEncryption.getPSSHForKeySystem: the box of the key system in the
\* container, 0 (null) when there is none
getPSSHForKeySystem(ks, initData) == initData[ks]

\* protectionModel.requestKeySystemAccess(requestedKeySystems)
requestKeySystemAccess(w, id, requested) ==
  Emit([w EXCEPT !.accessReqs = Append(@, [id |-> id, ks |-> requested])],
       [t |-> "requestAccess", id |-> id, ks |-> requested])

\* protectionModel.selectKeySystem(keySystemAccess)
pmSelectKeySystem(w, access) ==
  Emit([w EXCEPT !.selectReqs = Append(@, [ks |-> access])],
       [t |-> "pmSelectKeySystem", ks |-> access])

\* protectionModel.createKeySession(initData, sessionType, cdmData): raises
\* synchronously (throws) or records a session token for the data
pmCreateKeySession(w, data, stype, cdmData, throws) ==
  LET w1 == Emit([w EXCEPT !.csLog[data] = @ + 1],
                 [t |-> "createSession", initData |-> data,
                  sessionType |-> stype, cdmData |-> cdmData, threw |-> throws])
  IN  IF throws THEN w1
      ELSE [w1 EXCEPT !.sessions = Append(@, [initData |-> data, state |-> "pending"])]

(* ---------------------------- createKeySession ------------------------- *)
\* createKeySession without the test for duplicate initData
createKeySession_noDedupe(w, initData, cdmData, from, throws) ==
  LET w0 == Emit(w, [t |-> "createKeySession", initData |-> initData,
                     cdmData |-> cdmData, from |-> from])
      initDataForKS == getPSSHForKeySystem(w.keySystem, initData)
      w1 == pmCreateKeySession(w0, initDataForKS, sessionType[w.keySystem],
                               cdmData, throws)
  IN  IF initDataForKS # 0
      THEN IF throws
           THEN Emit(w1, Notification("keySessionCreated", "exception",
                                      "Create key session raised en exception"))
           ELSE w1
      ELSE Emit(w0, Notification("keySessionCreated", Null, "no initData"))

\* createKeySession whose loop over currentInitData starts at its last
\* element
createKeySession_lastOnly(w, initData, cdmData, from, throws) ==
  LET w0 == Emit(w, [t |-> "createKeySession", initData |-> initData,
                     cdmData |-> cdmData, from |-> from])
      initDataForKS == getPSSHForKeySystem(w.keySystem, initData)
      currentInitData == getAllInitData(w.sessions)
      w1 == pmCreateKeySession(w0, initDataForKS, sessionType[w.keySystem],
                               cdmData, throws)
  IN  IF initDataForKS # 0
      THEN IF /\ Len(currentInitData) > 0
              /\ initDataEquals(initDataForKS, currentInitData[Len(currentInitData)])
           THEN w0
           ELSE IF throws
           THEN Emit(w1, Notification("keySessionCreated", "exception",
                                      "Create key session raised en exception"))
           ELSE w1
      ELSE Emit(w0, Notification("keySessionCreated", Null, "no initData"))

\* createKeySession (642-675); from: the queue index of the batch the call
\* is replayed for, 0 for any other caller
createKeySession(w, initData, cdmData, from, throws) ==
  LET w0 == Emit(w, [t |-> "createKeySession", initData |-> initData,
                     cdmData |-> cdmData, from |-> from])
      initDataForKS == getPSSHForKeySystem(w.keySystem, initData)
      currentInitData == getAllInitData(w.sessions)
  IN  IF initDataForKS # 0
      THEN IF \E i \in 1..Len(currentInitData) :
                 initDataEquals(initDataForKS, currentInitData[i])
           THEN w0
           ELSE LET w1 == pmCreateKeySession(w0, initDataForKS,
                                             sessionType[w.keySystem], cdmData, throws)
                IN  IF throws
                    THEN Emit(w1, Notification("keySessionCreated", "exception",
                                               "Create key session raised en exception"))
                    ELSE w1
      ELSE Emit(w0, Notification("keySessionCreated", Null, "no initData"))

(* ----------------------------- selectKeySystem ------------------------- *)
\* keySystemsInfo: the systems named in a request
KeySystemsInfo(requested) == [i \in 1..Len(requested) |-> requested[i]]

\* selectKeySystem whose second test is !this.keySystem: a selection in
\* progress is taken for no selection
selectKeySystem_renegotiate(w0, supportedKS, fromManifest, id) ==
  LET w == Emit(w0, [t |-> "selectKeySystem", supportedKS |-> supportedKS,
                     fromManifest |-> fromManifest])
      requested == [i \in 1..Len(supportedKS) |-> supportedKS[i].ks]
      ksSelected == [kind |-> "ksSelected", id |-> id, fromManifest |-> fromManifest,
                     keySystemsInfo |-> KeySystemsInfo(requested),
                     keySystemAccess |-> Undefined]
  IN
  IF w.keySystem \in KS
  THEN LET ksIdx == FirstMatch(supportedKS, w.keySystem)
       IN  IF ksIdx = 0 THEN w
           ELSE requestKeySystemAccess(
                  [w EXCEPT !.subsAccess = Append(@,
                     [kind |-> "ksAccess", id |-> id, fromManifest |-> fromManifest,
                      keySystemsInfo |-> << supportedKS[ksIdx].ks >>,
                      cand |-> supportedKS[ksIdx]])],
                  id, << supportedKS[ksIdx].ks >>)
  ELSE requestKeySystemAccess(
         [w EXCEPT !.keySystem = Null,
                   !.pendingNeedKeyData = Append(@, supportedKS),
                   !.replayed = Append(@, 0),
                   !.enqSel = Append(@, w.nSel),
                   !.subsSelected = Append(@, ksSelected),
                   !.subsAccess = Append(@, ksSelected)],
         id, requested)

\* selectKeySystem whose negotiation request names the first candidate only
selectKeySystem_firstOnly(w0, supportedKS, fromManifest, id) ==
  LET w == Emit(w0, [t |-> "selectKeySystem", supportedKS |-> supportedKS,
                     fromManifest |-> fromManifest])
  IN
  IF w.keySystem \in KS
  THEN LET ksIdx == FirstMatch(supportedKS, w.keySystem)
       IN  IF ksIdx = 0 THEN w
           ELSE requestKeySystemAccess(
                  [w EXCEPT !.subsAccess = Append(@,
                     [kind |-> "ksAccess", id |-> id, fromManifest |-> fromManifest,
                      keySystemsInfo |-> << supportedKS[ksIdx].ks >>,
                      cand |-> supportedKS[ksIdx]])],
                  id, << supportedKS[ksIdx].ks >>)
  ELSE IF w.keySystem = Undefined
  THEN LET requested == [i \in 1..Len(supportedKS) |-> supportedKS[i].ks]
           ksSelected == [kind |-> "ksSelected", id |-> id,
                          fromManifest |-> fromManifest,
                          keySystemsInfo |-> KeySystemsInfo(requested),
                          keySystemAccess |-> Undefined]
       IN  requestKeySystemAccess(
             [w EXCEPT !.keySystem = Null,
                       !.pendingNeedKeyData = Append(@, supportedKS),
                       !.replayed = Append(@, 0),
                       !.enqSel = Append(@, w.nSel),
                       !.subsSelected = Append(@, ksSelected),
                       !.subsAccess = Append(@, ksSelected)],
             id, SubSeq(requested, 1, 1))
  ELSE [w EXCEPT !.pendingNeedKeyData = Append(@, supportedKS),
                 !.replayed = Append(@, 0),
                 !.enqSel = Append(@, w.nSel)]

\* selectKeySystem (104-236); id names the one-shot handlers of this call
selectKeySystem(w0, supportedKS, fromManifest, id) ==
  LET w == Emit(w0, [t |-> "selectKeySystem", supportedKS |-> supportedKS,
                     fromManifest |-> fromManifest])
  IN
  IF w.keySystem \in KS
  THEN LET ksIdx == FirstMatch(supportedKS, w.keySystem)
       IN  IF ksIdx = 0 THEN w
           ELSE requestKeySystemAccess(
                  [w EXCEPT !.subsAccess = Append(@,
                     [kind |-> "ksAccess", id |-> id, fromManifest |-> fromManifest,
                      keySystemsInfo |-> << supportedKS[ksIdx].ks >>,
                      cand |-> supportedKS[ksIdx]])],
                  id, << supportedKS[ksIdx].ks >>)
  ELSE IF w.keySystem = Undefined
  THEN LET requested == [i \in 1..Len(supportedKS) |-> supportedKS[i].ks]
           ksSelected == [kind |-> "ksSelected", id |-> id,
                          fromManifest |-> fromManifest,
                          keySystemsInfo |-> KeySystemsInfo(requested),
                          keySystemAccess |-> Undefined]
       IN  requestKeySystemAccess(
             [w EXCEPT !.keySystem = Null,
                       !.pendingNeedKeyData = Append(@, supportedKS),
                       !.replayed = Append(@, 0),
                       !.enqSel = Append(@, w.nSel),
                       !.subsSelected = Append(@, ksSelected),
                       !.subsAccess = Append(@, ksSelected)],
             id, requested)
  ELSE [w EXCEPT !.pendingNeedKeyData = Append(@, supportedKS),
                 !.replayed = Append(@, 0),
                 !.enqSel = Append(@, w.nSel)]

(* ------------------ one-shot handlers of the negotiation ---------------- *)
Unsubscribe(subs, id) == SelectSeq(subs, LAMBDA h : h.id # id)

\* ksSelected's handler without the test of fromManifest: the public failure
\* event is dispatched for every denial
ksSelectedAccessComplete_noSuppress(w, h, event) ==
  IF event.error
  THEN Emit(Emit([w EXCEPT !.keySystem = Undefined, !.nFail = @ + 1,
                           !.subsSelected = Unsubscribe(@, h.id)],
                 PublicEvent("keySystemSelected", "Access Denied", Null)),
            ProtectionError("MEDIA_KEYSYSERR_ACCESS_DENIED", h.keySystemsInfo))
  ELSE pmSelectKeySystem(
         [w EXCEPT !.subsSelected =
            [i \in 1..Len(@) |-> IF @[i].id = h.id
                                 THEN [@[i] EXCEPT !.keySystemAccess = event.data]
                                 ELSE @[i]]],
         event.data)

\* ksSelected[ENAME_KEY_SYSTEM_ACCESS_COMPLETE] (180-198)
ksSelectedAccessComplete(w, h, event) ==
  IF event.error
  THEN LET w1 == [w EXCEPT !.keySystem = Undefined, !.nFail = @ + 1,
                           !.subsSelected = Unsubscribe(@, h.id)]
           w2 == IF ~h.fromManifest
                 THEN Emit(w1, PublicEvent("keySystemSelected", "Access Denied", Null))
                 ELSE w1
       IN  Emit(w2, ProtectionError("MEDIA_KEYSYSERR_ACCESS_DENIED", h.keySystemsInfo))
  ELSE pmSelectKeySystem(
         [w EXCEPT !.subsSelected =
            [i \in 1..Len(@) |-> IF @[i].id = h.id
                                 THEN [@[i] EXCEPT !.keySystemAccess = event.data]
                                 ELSE @[i]]],
         event.data)

\* ksAccess's handler with the denial branch of ksSelected's: it gives up the
\* selected key system
ksAccessAccessComplete_revert(w, h, event, throws) ==
  IF event.error
  THEN Emit([w EXCEPT !.keySystem = Undefined],
            PublicEvent("keySystemSelected", "Access Denied", Null))
  ELSE createKeySession(Emit(w, PublicEvent("keySystemSelected", Null, event.data)),
                        h.cand.initData, h.cand.cdmData, 0, throws)

\* ksAccess's handler with the test of fromManifest (139, 144) in force: a
\* denial for a trigger from the manifest dispatches nothing
ksAccessAccessComplete_manifestSilent(w, h, event, throws) ==
  IF event.error
  THEN IF ~h.fromManifest
       THEN Emit(w, PublicEvent("keySystemSelected", "Access Denied", Null))
       ELSE w
  ELSE createKeySession(Emit(w, PublicEvent("keySystemSelected", Null, event.data)),
                        h.cand.initData, h.cand.cdmData, 0, throws)

\* ksAccess[ENAME_KEY_SYSTEM_ACCESS_COMPLETE] (137-153)
ksAccessAccessComplete(w, h, event, throws) ==
  IF event.error
  THEN Emit(w, PublicEvent("keySystemSelected", "Access Denied", Null))
  ELSE createKeySession(Emit(w, PublicEvent("keySystemSelected", Null, event.data)),
                        h.cand.initData, h.cand.cdmData, 0, throws)

\* the loop over pendingNeedKeyData whose break leaves both loops: it stops
\* at the first batch that has a candidate
RECURSIVE ReplayPending_stop(_, _, _)
ReplayPending_stop(w, i, thr) ==
  IF i > Len(w.pendingNeedKeyData) THEN w
  ELSE LET batch == w.pendingNeedKeyData[i]
           ksIdx == FirstMatch(batch, w.keySystem)
           w1 == [w EXCEPT !.replayed[i] = @ + 1]
       IN  IF ksIdx = 0 THEN ReplayPending_stop(w1, i + 1, thr)
           ELSE createKeySession(w1, batch[ksIdx].initData,
                                 batch[ksIdx].cdmData, i, i \in thr)

\* the loop over pendingNeedKeyData without the break: every candidate of
\* the selected system gets a createKeySession call
RECURSIVE CreateAll(_, _, _, _, _)
CreateAll(w, batch, k, i, throws) ==
  IF k > Len(batch) THEN w
  ELSE CreateAll(IF batch[k].ks = w.keySystem
                 THEN createKeySession(w, batch[k].initData, batch[k].cdmData, i, throws)
                 ELSE w,
                 batch, k + 1, i, throws)

RECURSIVE ReplayPending_noBreak(_, _, _)
ReplayPending_noBreak(w, i, thr) ==
  IF i > Len(w.pendingNeedKeyData) THEN w
  ELSE ReplayPending_noBreak(
         CreateAll([w EXCEPT !.replayed[i] = @ + 1], w.pendingNeedKeyData[i], 1, i,
                   i \in thr),
         i + 1, thr)

\* the loop over pendingNeedKeyData left by the exception of the gateway:
\* it ends at the first batch whose createKeySession call raised
RECURSIVE ReplayPending_propagate(_, _, _)
ReplayPending_propagate(w, i, thr) ==
  IF i > Len(w.pendingNeedKeyData) THEN w
  ELSE LET batch == w.pendingNeedKeyData[i]
           ksIdx == FirstMatch(batch, w.keySystem)
           w1 == [w EXCEPT !.replayed[i] = @ + 1]
           w2 == IF ksIdx = 0 THEN w1
                 ELSE createKeySession(w1, batch[ksIdx].initData,
                                       batch[ksIdx].cdmData, i, i \in thr)
       IN  IF ksIdx # 0 /\ i \in thr THEN w2
           ELSE ReplayPending_propagate(w2, i + 1, thr)

\* the loop over pendingNeedKeyData (207-214); thr: the queue indexes for
\* which the gateway raises in createKeySession
RECURSIVE ReplayPending(_, _, _)
ReplayPending(w, i, thr) ==
  IF i > Len(w.pendingNeedKeyData) THEN w
  ELSE LET batch == w.pendingNeedKeyData[i]
           ksIdx == FirstMatch(batch, w.keySystem)
           w1 == [w EXCEPT !.replayed[i] = @ + 1]
           w2 == IF ksIdx = 0 THEN w1
                 ELSE createKeySession(w1, batch[ksIdx].initData,
                                       batch[ksIdx].cdmData, i, i \in thr)
       IN  ReplayPending(w2, i + 1, thr)

\* ksSelected[ENAME_KEY_SYSTEM_SELECTED] (199-227); pmKS is
\* protectionModel.keySystem when the event is delivered
ksSelectedSelected(w, h, event, pmKS, thr) ==
  IF ~event.error
  THEN ReplayPending(
         Emit([w EXCEPT !.keySystem = pmKS, !.nSel = @ + 1],
              PublicEvent("keySystemSelected", Null, h.keySystemAccess)),
         1, thr)
  ELSE LET w1 == [w EXCEPT !.keySystem = Undefined, !.nFail = @ + 1]
           w2 == IF ~h.fromManifest
                 THEN Emit(w1, PublicEvent("keySystemSelected", "Error selecting", Null))
                 ELSE w1
       IN  Emit(w2, ProtectionError("MEDIA_KEYSYSERR_ACCESS_DENIED", h.keySystemsInfo))

\* the notifier delivers an event to every handler subscribed to it, in
\* subscription order
RECURSIVE NotifyAccessComplete(_, _, _, _)
NotifyAccessComplete(w, hs, event, thr) ==
  IF hs = << >> THEN w
  ELSE LET h == Head(hs)
           w1 == IF h.kind = "ksSelected"
                 THEN ksSelectedAccessComplete(w, h, event)
                 ELSE ksAccessAccessComplete(w, h, event, h.id \in thr)
       IN  NotifyAccessComplete(w1, Tail(hs), event, thr)

RECURSIVE NotifySelected(_, _, _, _, _)
NotifySelected(w, hs, event, pmKS, thr) ==
  IF hs = << >> THEN w
  ELSE NotifySelected(ksSelectedSelected(w, Head(hs), event, pmKS, thr),
                      Tail(hs), event, pmKS, thr)

(* ------------------------------- actions ------------------------------- *)
\* onNeedKey without the test of the type of the initialization data (410)
onNeedKey_anyType(initDataType, supportedKS) ==
  /\ setUp /\ needKeySub
  /\ LET w0 == [World EXCEPT !.args = << [initDataType |-> initDataType,
                                          supportedKS |-> supportedKS] >>]
     IN  IF Len(supportedKS) = 0
         THEN /\ Commit(w0, "onNeedKey")
              /\ UNCHANGED << nTrig, nOps >>
         ELSE /\ nOps' = nOps + 1
              /\ nTrig' = nTrig + 1
              /\ Commit(selectKeySystem(w0, supportedKS, FALSE, nTrig + 1), "onNeedKey")
  /\ UNCHANGED << epoch, initialized, protDataSet, sessionType, setUp, needKeySub, pmKeySystem >>

\* onNeedKey (402-430); supportedKS is what the extension resolves from the
\* initialization data of the event. The gateway delivers the event while
\* the controller is subscribed to it
onNeedKey(initDataType, supportedKS) ==
  /\ setUp /\ needKeySub
  /\ LET w0 == [World EXCEPT !.args = << [initDataType |-> initDataType,
                                          supportedKS |-> supportedKS] >>]
     IN  IF initDataType # "cenc" \/ Len(supportedKS) = 0
         THEN /\ Commit(w0, "onNeedKey")
              /\ UNCHANGED << nTrig, nOps >>
         ELSE /\ nOps' = nOps + 1
              /\ nTrig' = nTrig + 1
              /\ Commit(selectKeySystem(w0, supportedKS, FALSE, nTrig + 1), "onNeedKey")
  /\ UNCHANGED << epoch, initialized, protDataSet, sessionType, setUp, needKeySub, pmKeySystem >>

\* init without the test of initialized (543): every call may start a
\* selection
init_everyCall(supportedKS) ==
  /\ setUp \/ initialized
  /\ initialized' = TRUE
  /\ IF Len(supportedKS) > 0 /\ setUp
     THEN /\ nOps' = nOps + 1
          /\ nTrig' = nTrig + 1
          /\ Commit(selectKeySystem([World EXCEPT !.args = << [supportedKS |-> supportedKS] >>],
                                    supportedKS, TRUE, nTrig + 1), "init")
     ELSE /\ Commit([World EXCEPT !.args = << [supportedKS |-> supportedKS] >>], "init")
          /\ UNCHANGED << nTrig, nOps >>
  /\ UNCHANGED << epoch, protDataSet, sessionType, setUp, needKeySub, pmKeySystem >>

\* init (538-560); supportedKS is what the extension resolves from the
\* ContentProtection elements. A call on a controller that is initialized
\* reads nothing else, so it is possible after teardown too
init(supportedKS) ==
  /\ setUp \/ initialized
  /\ IF ~initialized
     THEN /\ initialized' = TRUE
          /\ IF Len(supportedKS) > 0
             THEN /\ nOps' = nOps + 1
                  /\ nTrig' = nTrig + 1
                  /\ Commit(selectKeySystem([World EXCEPT !.args = << [supportedKS |-> supportedKS] >>],
                                            supportedKS, TRUE, nTrig + 1), "init")
             ELSE /\ Commit([World EXCEPT !.args = << [supportedKS |-> supportedKS] >>], "init")
                  /\ UNCHANGED << nTrig, nOps >>
     ELSE /\ Commit([World EXCEPT !.args = << [supportedKS |-> supportedKS] >>], "init")
          /\ UNCHANGED << initialized, nTrig, nOps >>
  /\ UNCHANGED << epoch, protDataSet, sessionType, setUp, needKeySub, pmKeySystem >>

\* setMediaElement (745-753)
setMediaElement(element) ==
  /\ setUp
  /\ IF element # Null /\ element # Undefined
     THEN needKeySub' = TRUE
     ELSE IF element = Null THEN needKeySub' = FALSE
     ELSE UNCHANGED needKeySub
  /\ Commit([World EXCEPT !.attached = IF element = Undefined THEN @ ELSE element # Null],
            "setMediaElement")
  /\ UNCHANGED << epoch, initialized, protDataSet, sessionType, setUp, pmKeySystem, nTrig, nOps >>

\* the gateway answers the access request at position i: denied, or granted
\* for one of the requested systems
KeySystemAccessComplete(i, result, thr) ==
  /\ setUp
  /\ i \in 1..Len(accessReqs)
  /\ LET event == [error |-> result = "denied", data |-> result]
         w0 == [World EXCEPT !.accessReqs = RemoveAt(@, i), !.subsAccess = << >>,
                             !.args = << [event |-> event, handlers |-> subsAccess] >>]
     IN  Commit(NotifyAccessComplete(w0, subsAccess, event, thr), "accessComplete")
  /\ UNCHANGED << epoch, initialized, protDataSet, sessionType, setUp, needKeySub, pmKeySystem, nTrig, nOps >>

\* the gateway answers the selectKeySystem call at position i
KeySystemSelected(i, ok, thr) ==
  /\ setUp
  /\ i \in 1..Len(selectReqs)
  /\ LET event == [error |-> ~ok, data |-> selectReqs[i].ks]
         pmKS == IF ok THEN selectReqs[i].ks ELSE pmKeySystem
         w0 == [World EXCEPT !.selectReqs = RemoveAt(@, i), !.subsSelected = << >>]
     IN  /\ pmKeySystem' = pmKS
         /\ Commit(NotifySelected(w0, subsSelected, event, pmKS, thr), "systemSelected")
  /\ UNCHANGED << epoch, initialized, protDataSet, sessionType, setUp, needKeySub, nTrig, nOps >>

\* createKeySession called by the application
createKeySessionDirect(initData, cdmData, throws) ==
  /\ setUp
  /\ keySystem \in KS
  /\ nOps' = nOps + 1
  /\ Commit(createKeySession(World, initData, cdmData, 0, throws), "createKeySession")
  /\ UNCHANGED << epoch, initialized, protDataSet, sessionType, setUp, needKeySub, pmKeySystem, nTrig >>

\* the codes of the errors of the CDM and the message that comes with each
KeyErrorCodes == {"MEDIA_KEYERR_UNKNOWN", "MEDIA_KEYERR_OUTPUT"}

ErrorMessages ==
  [c \in KeyErrorCodes |-> IF c = "MEDIA_KEYERR_UNKNOWN" THEN "unknown error"
                           ELSE "output not allowed"]

\* onKeySessionCreated (442-450): the gateway reports the outcome of the
\* creation of session i
onKeySessionCreated(i, ok) ==
  /\ setUp
  /\ i \in 1..Len(sessions)
  /\ sessions[i].state = "pending"
  /\ LET w0 == [World EXCEPT !.sessions[i].state = IF ok THEN "open" ELSE "failed",
                             !.args = << [error |-> ~ok] >>]
     IN  Commit(IF ok THEN w0
                ELSE Emit(w0, ProtectionError("MEDIA_KEYMESSERR_NO_SESSION",
                                              "Failed to create key session")),
                "onKeySessionCreated")
  /\ UNCHANGED << epoch, initialized, protDataSet, sessionType, setUp, needKeySub, pmKeySystem, nTrig, nOps >>

\* the gateway events below reach the controller while it is subscribed
\* (setup 513-520, teardown 612-620)
\* onKeySessionClosed (461-467): the gateway reports the end of the closing
\* of session i; the handler writes to the debug log only
onKeySessionClosed(i, error) ==
  /\ setUp
  /\ i \in 1..Len(sessions)
  /\ sessions[i].state = "open"
  /\ Commit([(IF error THEN World ELSE [World EXCEPT !.sessions[i].state = "closed"])
               EXCEPT !.args = << [error |-> error] >>],
            "onKeySessionClosed")
  /\ UNCHANGED << epoch, initialized, protDataSet, sessionType, setUp, needKeySub, pmKeySystem, nTrig, nOps >>

\* onKeySessionRemoved (469-475): the same for the removal of session i
onKeySessionRemoved(i, error) ==
  /\ setUp
  /\ i \in 1..Len(sessions)
  /\ sessions[i].state \in {"open", "closed"}
  /\ Commit([(IF error THEN World ELSE [World EXCEPT !.sessions[i].state = "removed"])
               EXCEPT !.args = << [error |-> error] >>],
            "onKeySessionRemoved")
  /\ UNCHANGED << epoch, initialized, protDataSet, sessionType, setUp, needKeySub, pmKeySystem, nTrig, nOps >>

\* onKeyStatusesChanged raising every error under one code
onKeyStatusesChanged_fixedCode(i, error) ==
  /\ setUp
  /\ i \in 1..Len(sessions)
  /\ sessions[i].state = "open"
  /\ LET w0 == [World EXCEPT !.args = << [error |-> error] >>]
     IN  Commit(IF error = Null THEN w0
                ELSE Emit(w0, ProtectionError("MEDIA_KEYERR_UNKNOWN", ErrorMessages[error])),
                "onKeyStatusesChanged")
  /\ UNCHANGED << epoch, initialized, protDataSet, sessionType, setUp, needKeySub, pmKeySystem, nTrig, nOps >>

\* onKeyStatusesChanged (477-484): event.error is Null or an error object,
\* named here by its code
onKeyStatusesChanged(i, error) ==
  /\ setUp
  /\ i \in 1..Len(sessions)
  /\ sessions[i].state = "open"
  /\ LET w0 == [World EXCEPT !.args = << [error |-> error] >>]
     IN  Commit(IF error = Null THEN w0
                ELSE Emit(w0, ProtectionError(error, ErrorMessages[error])),
                "onKeyStatusesChanged")
  /\ UNCHANGED << epoch, initialized, protDataSet, sessionType, setUp, needKeySub, pmKeySystem, nTrig, nOps >>

\* onServerCertificateUpdated (432-440)
onServerCertificateUpdated(error) ==
  /\ setUp
  /\ keySystem \in KS
  /\ LET w0 == [World EXCEPT !.args = << [error |-> error] >>]
     IN  Commit(IF ~error THEN w0
                ELSE Emit(w0, ProtectionError("MEDIA_KEYERR_SERVER_CERTIFICATE",
                                              "Failed to set server certificate")),
                "onServerCertificateUpdated")
  /\ UNCHANGED << epoch, initialized, protDataSet, sessionType, setUp, needKeySub, pmKeySystem, nTrig, nOps >>

\* onKeyAdded (452-454)
onKeyAdded(i) ==
  /\ setUp
  /\ i \in 1..Len(sessions)
  /\ sessions[i].state = "open"
  /\ Commit(World, "onKeyAdded")
  /\ UNCHANGED << epoch, initialized, protDataSet, sessionType, setUp, needKeySub, pmKeySystem, nTrig, nOps >>

\* onKeyError (456-459): event.data carries the code and the message
onKeyError(i, code) ==
  /\ setUp
  /\ i \in 1..Len(sessions)
  /\ sessions[i].state = "open"
  /\ Commit(Emit([World EXCEPT !.args = << [error |-> code] >>],
                 ProtectionError(code, ErrorMessages[code])), "onKeyError")
  /\ UNCHANGED << epoch, initialized, protDataSet, sessionType, setUp, needKeySub, pmKeySystem, nTrig, nOps >>

\* this.keysystem (764): a property of the controller that no code assigns
keysystem == Undefined

\* setSessionType (763-767): the test reads this.keysystem, the assignment
\* writes this.keySystem.sessionType
setSessionType(value) ==
  /\ sessionType' = IF keysystem \notin {Undefined, Null}
                    THEN [sessionType EXCEPT ![keySystem] = value]
                    ELSE sessionType
  /\ Commit([World EXCEPT !.askedType = IF keySystem \in KS THEN value ELSE @],
            "setSessionType")
  /\ UNCHANGED << epoch, initialized, protDataSet, setUp, needKeySub, pmKeySystem, nTrig, nOps >>

(* --------------------------- license pipeline -------------------------- *)
MessageTypes == {"license-request", "license-renewal"}

\* protection data of one key system; serverURL is a string, an object
\* keyed by message type, or absent
StrURL(u) == [type |-> "string", v |-> u]
ObjURL(m) == [type |-> "object", v |-> m]
NoURL == [type |-> "undefined", v |-> Undefined]

ProtData(serverURL, laURL, headers, withCredentials) ==
  [present |-> TRUE, serverURL |-> serverURL, laURL |-> laURL,
   httpRequestHeaders |-> headers, withCredentials |-> withCredentials]

\* null protection data (present = FALSE)
NullProtData ==
  [present |-> FALSE, serverURL |-> NoURL, laURL |-> Undefined,
   httpRequestHeaders |-> << >>, withCredentials |-> FALSE]

\* the values the application passes to setProtectionData: a mapping from
\* system string to protection data (NullProtData: the system has no entry)
ProtDataSets ==
  { [A |-> ProtData(StrURL("Userver"), "Ula", << >>, FALSE),
     B |-> ProtData(StrURL("Userver"), "Ula", << >>, FALSE)],
    [A |-> ProtData(ObjURL([x \in {"license-request"} |-> "Umap"]), "Ula", << >>, FALSE),
     B |-> ProtData(ObjURL([x \in {"license-request"} |-> "Umap"]), "Ula", << >>, FALSE)],
    [A |-> ProtData(StrURL(""), "Ula", << "Authorization" >>, FALSE),
     B |-> ProtData(StrURL(""), "Ula", << "Authorization" >>, FALSE)],
    [A |-> ProtData(NoURL, "", << >>, TRUE),
     B |-> NullProtData] }

\* the test of a value against null only
Falsy_nullOnly(x) == x = Null

\* !x for a URL: null, undefined and the empty string are false
Falsy(x) == x \in {Null, Undefined, ""}

\* getProtData (95-102)
getProtData(ks) ==
  IF protDataSet.defined THEN protDataSet.data[ks] ELSE NullProtData

\* protectionExt.isClearKey
isClearKey(ks) == ks = "A"

\* the choice of the license server URL from the protection data (299-311)
ConfiguredURL(protData, messageType) ==
  IF protData.present
  THEN IF protData.serverURL.type = "object"
          \/ (protData.serverURL.type = "string" /\ protData.serverURL.v # "")
       THEN IF protData.serverURL.type = "string"
            THEN protData.serverURL.v
            ELSE IF protData.serverURL.type = "object"
                    /\ messageType \in DOMAIN protData.serverURL.v
            THEN protData.serverURL.v[messageType]
            ELSE Null
       ELSE IF ~Falsy(protData.laURL) THEN protData.laURL
       ELSE Null
  ELSE Null

\* the fallback to the URL of the initialization data and to the default
\* URL of the message (313-318)
FallbackURL(url, initDataURL, defaultURL) ==
  IF url = Null
  THEN IF ~Falsy(initDataURL) THEN initDataURL ELSE defaultURL
  ELSE url

\* licenseServerData.getServerURLFromMessage(url, message, messageType):
\* the descriptor keeps the URL, replaces it or has none
getServerURLFromMessage(url, post) ==
  IF post = "keep" THEN url
  ELSE IF post = "override" THEN "Uoverride"
  ELSE Null

\* updateHeaders (372-382) applied to the request x being prepared
updateHeaders(x, headers) ==
  [x EXCEPT !.headers = @ \o headers,
            !.withCredentials = @ \/ (\E i \in 1..Len(headers) :
                                        headers[i] \in {"authorization", "Authorization"})]

\* protectionModel.updateKeySession(sessionToken, message)
updateKeySession(w, sessionToken, material) ==
  Emit(w, [t |-> "updateSession", sessionToken |-> sessionToken, material |-> material])

\* new XMLHttpRequest(): the fields of the object that the handlers read
\* later; sessionToken is the token its handlers close over
NewXhr == [state |-> "unsent", aborted |-> FALSE, sessionToken |-> 0, url |-> Null]

\* the test of the message with !message only
IsEmptyMessage_absentOnly(message) == message = Null

\* the test of the message (273): it is absent or its byteLength is 0
IsEmptyMessage(message) == message \in {Null, "empty"}

\* the request to the license server (295-399) for the key message e, made
\* in world w
requestLicense(w, e, messageType, protData, initDataURL, post, msgHeaders, licenseRequest) ==
  LET id == Len(w.xhrs) + 1
      chosen == FallbackURL(ConfiguredURL(protData, messageType), initDataURL, e.defaultURL)
      url == getServerURLFromMessage(chosen, post)
      w1 == Emit(Emit([w EXCEPT !.xhrs = Append(@, NewXhr), !.xhrLicense = id],
                      [t |-> "xhrNew", id |-> id]),
                 [t |-> "url", initDataURL |-> initDataURL, chosen |-> chosen,
                  post |-> post, url |-> url])
      opened == [t |-> "xhrSend", id |-> id, url |-> url, messageType |-> messageType,
                 headers |-> << >>, withCredentials |-> FALSE, body |-> Null]
      h1 == IF protData.present THEN updateHeaders(opened, protData.httpRequestHeaders)
            ELSE opened
      h2 == updateHeaders(h1, msgHeaders)
      h3 == IF protData.present /\ protData.withCredentials
            THEN [h2 EXCEPT !.withCredentials = TRUE] ELSE h2
      w2 == IF licenseRequest = Null
            THEN Emit(w1, ProtectionError("MEDIA_KEYMESSERR_NO_CHALLENGE",
                                          "No license challenge from CDM key message"))
            ELSE w1
  IN  IF Falsy(url)
      THEN Emit(w1, ProtectionError("MEDIA_KEYMESSERR_URL_LICENSER_UNKNOWN",
                                    "No license server URL specified"))
      ELSE Emit([w2 EXCEPT !.xhrs[id] = [state |-> "sent", aborted |-> FALSE,
                                         sessionToken |-> e.sessionToken, url |-> url]],
                [h3 EXCEPT !.body = licenseRequest])

\* onKeyMessage with the public event dispatched after the test of the
\* message: an empty message raises the fault only
onKeyMessageBody_lateEvent(w, e, licenseServerData, clearkeys, initDataURL, post, msgHeaders, licenseRequest) ==
  LET messageType == IF ~Falsy(e.messageType) THEN e.messageType ELSE "license-request"
      w0 == Emit(w, PublicEvent("keyMessage", Null, e))
      protData == getProtData(w.keySystem)
      wc == IF isClearKey(w.keySystem)
            THEN Emit(w0, [t |-> "processClearKeyLicenseRequest", result |-> clearkeys])
            ELSE w0
  IN  IF IsEmptyMessage(e.message)
      THEN Emit(w, ProtectionError("MEDIA_KEYMESSERR_NO_CHALLENGE",
                                   "Empty key message from CDM"))
      ELSE IF licenseServerData = Null THEN w0
      ELSE IF isClearKey(w.keySystem) /\ clearkeys # Null
      THEN updateKeySession(wc, e.sessionToken, clearkeys)
      ELSE requestLicense(wc, e, messageType, protData, initDataURL, post, msgHeaders,
                          licenseRequest)

\* onKeyMessage without the test of the descriptor: a message without one
\* goes on to the license server
onKeyMessageBody_noDescriptorTest(w, e, licenseServerData, clearkeys, initDataURL, post, msgHeaders, licenseRequest) ==
  LET messageType == IF ~Falsy(e.messageType) THEN e.messageType ELSE "license-request"
      w0 == Emit(w, PublicEvent("keyMessage", Null, e))
      protData == getProtData(w.keySystem)
      wc == IF isClearKey(w.keySystem)
            THEN Emit(w0, [t |-> "processClearKeyLicenseRequest", result |-> clearkeys])
            ELSE w0
  IN  IF IsEmptyMessage(e.message)
      THEN Emit(w0, ProtectionError("MEDIA_KEYMESSERR_NO_CHALLENGE",
                                    "Empty key message from CDM"))
      ELSE IF isClearKey(w.keySystem) /\ clearkeys # Null
      THEN updateKeySession(wc, e.sessionToken, clearkeys)
      ELSE requestLicense(wc, e, messageType, protData, initDataURL, post, msgHeaders,
                          licenseRequest)

\* onKeyMessage without the return of the ClearKey branch: the request to
\* the license server follows the update
onKeyMessageBody_noReturn(w, e, licenseServerData, clearkeys, initDataURL, post, msgHeaders, licenseRequest) ==
  LET messageType == IF ~Falsy(e.messageType) THEN e.messageType ELSE "license-request"
      w0 == Emit(w, PublicEvent("keyMessage", Null, e))
      protData == getProtData(w.keySystem)
      wc == IF isClearKey(w.keySystem)
            THEN Emit(w0, [t |-> "processClearKeyLicenseRequest", result |-> clearkeys])
            ELSE w0
  IN  IF IsEmptyMessage(e.message)
      THEN Emit(w0, ProtectionError("MEDIA_KEYMESSERR_NO_CHALLENGE",
                                    "Empty key message from CDM"))
      ELSE IF licenseServerData = Null THEN w0
      ELSE requestLicense(IF isClearKey(w.keySystem) /\ clearkeys # Null
                          THEN updateKeySession(wc, e.sessionToken, clearkeys)
                          ELSE wc,
                          e, messageType, protData, initDataURL, post, msgHeaders,
                          licenseRequest)

\* onKeyMessage (245-400); e is the key message, the other parameters are
\* the results of the extensions for it
onKeyMessageBody(w, e, licenseServerData, clearkeys, initDataURL, post, msgHeaders, licenseRequest) ==
  LET messageType == IF ~Falsy(e.messageType) THEN e.messageType ELSE "license-request"
      w0 == Emit(w, PublicEvent("keyMessage", Null, e))
      protData == getProtData(w.keySystem)
      wc == IF isClearKey(w.keySystem)
            THEN Emit(w0, [t |-> "processClearKeyLicenseRequest", result |-> clearkeys])
            ELSE w0
  IN  IF IsEmptyMessage(e.message)
      THEN Emit(w0, ProtectionError("MEDIA_KEYMESSERR_NO_CHALLENGE",
                                    "Empty key message from CDM"))
      ELSE IF licenseServerData = Null THEN w0
      ELSE IF isClearKey(w.keySystem) /\ clearkeys # Null
      THEN updateKeySession(wc, e.sessionToken, clearkeys)
      ELSE requestLicense(wc, e, messageType, protData, initDataURL, post, msgHeaders,
                          licenseRequest)

\* a key message and the results of the extensions for it
KeyMessageCase(message, messageType, sessionToken, defaultURL, ls, ck, iu, post, mh, lr) ==
  [e |-> [message |-> message, messageType |-> messageType,
          sessionToken |-> sessionToken, defaultURL |-> defaultURL],
   licenseServerData |-> ls, clearkeys |-> ck, initDataURL |-> iu, post |-> post,
   msgHeaders |-> mh, licenseRequest |-> lr]

\* the key messages of the model: every input varies over the paths of
\* onKeyMessage that read it
KeyMessageCases(tokens) ==
  UNION { { KeyMessageCase(m, Undefined, tk, "Udefault", ls, Null, Null, "keep",
                           << >>, "challenge") :
              m \in {Null, "empty", "bytes"}, ls \in {Null, "descriptor"} }
          \cup
          { KeyMessageCase("bytes", Undefined, tk, "Udefault", "descriptor", "clearkeys",
                           Null, "keep", << >>, "challenge") }
          \cup
          { KeyMessageCase("bytes", mt, tk, "Udefault", "descriptor", Null, Null, "keep",
                           << >>, "challenge") :
              mt \in {Undefined} \cup MessageTypes }
          \cup
          { KeyMessageCase("bytes", Undefined, tk, du, "descriptor", Null, iu, "keep",
                           << >>, "challenge") :
              du \in {Undefined, "Udefault"}, iu \in {Null, "Upssh"} }
          \cup
          { KeyMessageCase("bytes", Undefined, tk, "Udefault", "descriptor", Null, Null, post,
                           << >>, "challenge") :
              post \in {"override", "none"} }
          \cup
          { KeyMessageCase("bytes", Undefined, tk, "Udefault", "descriptor", Null, Null,
                           "keep", << "authorization" >>, "challenge"),
            KeyMessageCase("bytes", Undefined, tk, "Udefault", "descriptor", Null, Null,
                           "keep", << >>, Null) }
          : tk \in tokens }

onKeyMessage(c) ==
  /\ setUp
  /\ keySystem \in KS
  /\ Listed(sessions[c.e.sessionToken])
  /\ nOps' = nOps + 1
  /\ Commit(onKeyMessageBody([World EXCEPT !.args = << c >>], c.e, c.licenseServerData, c.clearkeys,
                             c.initDataURL, c.post, c.msgHeaders, c.licenseRequest),
            "onKeyMessage")
  /\ UNCHANGED << epoch, initialized, protDataSet, sessionType, setUp, needKeySub, pmKeySystem, nTrig >>

\* the load handler reading the session token of the latest request made
\* instead of the token of its own key message
onload_latestToken(w, x, status, readyState, licenseMessage, canUpdate) ==
  IF status < 200 \/ status > 299
  THEN [w |-> w, needFailureReport |-> TRUE]
  ELSE IF status = 200 /\ readyState = 4
  THEN IF licenseMessage # Null
       THEN [w |-> IF canUpdate
                   THEN updateKeySession(w, w.xhrs[Len(w.xhrs)].sessionToken, licenseMessage)
                   ELSE w,
             needFailureReport |-> FALSE]
       ELSE [w |-> w, needFailureReport |-> TRUE]
  ELSE [w |-> w, needFailureReport |-> TRUE]

\* xhrLicense.onload (333-350): returns the world and needFailureReport
onload(w, x, status, readyState, licenseMessage, canUpdate) ==
  IF status < 200 \/ status > 299
  THEN [w |-> w, needFailureReport |-> TRUE]
  ELSE IF status = 200 /\ readyState = 4
  THEN IF licenseMessage # Null
       THEN [w |-> IF canUpdate THEN updateKeySession(w, x.sessionToken, licenseMessage)
                   ELSE w,
             needFailureReport |-> FALSE]
       ELSE [w |-> w, needFailureReport |-> TRUE]
  ELSE [w |-> w, needFailureReport |-> TRUE]

\* licenseServerData.getErrorResponse(response)
getErrorResponse(response) == "parsed error body"

\* the handler without needFailureReport = false (357)
onloadend_noReset(r, id, status, response) ==
  IF ~r.needFailureReport
  THEN [w |-> [r.w EXCEPT !.xhrLicense = 0], needFailureReport |-> FALSE]
  ELSE [w |-> [(IF ~r.w.xhrs[id].aborted
                THEN Emit(r.w, ProtectionError("MEDIA_KEYMESSERR_LICENSER_ERROR",
                            [url |-> r.w.xhrs[id].url, status |-> status,
                             error |-> IF response # Null
                                       THEN getErrorResponse(response)
                                       ELSE ""]))
                ELSE r.w) EXCEPT !.xhrLicense = 0],
        needFailureReport |-> TRUE]

\* xhrLicense.onerror = xhrLicense.onloadend (352-369) for request id
onloadend(r, id, status, response) ==
  IF ~r.needFailureReport
  THEN [w |-> [r.w EXCEPT !.xhrLicense = 0], needFailureReport |-> FALSE]
  ELSE [w |-> [(IF ~r.w.xhrs[id].aborted
                THEN Emit(r.w, ProtectionError("MEDIA_KEYMESSERR_LICENSER_ERROR",
                            [url |-> r.w.xhrs[id].url, status |-> status,
                             error |-> IF response # Null
                                       THEN getErrorResponse(response)
                                       ELSE ""]))
                ELSE r.w) EXCEPT !.xhrLicense = 0],
        needFailureReport |-> FALSE]

\* the request id has ended: no handler of it runs again and nothing reads
\* it, the record keeps its state and its aborted mark
Ended(w, id) ==
  [w EXCEPT !.xhrs[id] = [NewXhr EXCEPT !.state = "done", !.aborted = w.xhrs[id].aborted]]

\* the responses of the license server: a status, a body (Null: none) and
\* what the descriptor parses the body to (Null: nothing); a body is
\* parsed only for a status the handler accepts
Responses ==
  [status : {200, 204, 299}, response : {"body"}, licenseMessage : {"license"}]
  \cup [status : {200}, response : {"body"}, licenseMessage : {Null}]
  \cup [status : {199, 300}, response : {Null}, licenseMessage : {Null}]
  \cup [status : {500}, response : {Null, "body"}, licenseMessage : {Null}]

\* the exchange id ends: the response has loaded (load, loadend) or the
\* transport failed (error, loadend)
XhrDone(id, kind, status, response, licenseMessage) ==
  /\ id \in 1..Len(xhrs)
  /\ xhrs[id].state = "sent"
  /\ LET start == [w |-> World, needFailureReport |-> TRUE]
         r == IF kind = "load"
              THEN onloadend(onload(World, xhrs[id], status, 4, licenseMessage, setUp),
                             id, status, response)
              ELSE onloadend(onloadend(start, id, 0, Null), id, 0, Null)
     IN  Commit(Emit(Ended(r.w, id),
                     [t |-> "xhrDone", id |-> id, kind |-> kind, status |-> status,
                      response |-> response, licenseMessage |-> licenseMessage,
                      sessionToken |-> xhrs[id].sessionToken]),
                "xhrDone")
  /\ UNCHANGED << epoch, initialized, protDataSet, sessionType, setUp, needKeySub, pmKeySystem, nTrig, nOps >>

\* xhrLicense.abort(): a request that was sent ends with loadend; a request
\* that was never sent is left as it is
abort(w, id) ==
  IF w.xhrs[id].state = "sent"
  THEN Ended(onloadend([w |-> Emit(w, [t |-> "xhrAbort", id |-> id]),
                        needFailureReport |-> TRUE], id, 0, Null).w, id)
  ELSE w

\* teardown (606-626)
teardown ==
  /\ setUp
  /\ nOps' = nOps + 1
  /\ LET w0 == IF xhrLicense # 0
               THEN abort([World EXCEPT !.xhrs[xhrLicense].aborted = TRUE], xhrLicense)
               ELSE World
         w1 == [w0 EXCEPT !.keySystem = Undefined, !.askedType = "none",
                          !.attached = FALSE,
                          !.accessReqs = << >>, !.selectReqs = << >>,
                          !.subsAccess = << >>, !.subsSelected = << >>,
                          !.sessions = [i \in 1..Len(@) |-> [@[i] EXCEPT !.state = "closed"]]]
     IN  Commit(w1, "teardown")
  /\ pmKeySystem' = Undefined
  /\ needKeySub' = FALSE
  /\ setUp' = FALSE
  /\ epoch' = epoch + 1
  /\ UNCHANGED << initialized, protDataSet, sessionType, nTrig >>

\* setup (495-521)
setup ==
  /\ ~setUp
  /\ setUp' = TRUE
  /\ Commit(World, "setup")
  /\ UNCHANGED << epoch, initialized, protDataSet, sessionType, needKeySub, pmKeySystem, nTrig, nOps >>

\* setProtectionData (778-781)
setProtectionData(data) ==
  /\ protDataSet' = [defined |-> TRUE, data |-> data]
  /\ Commit(World, "setProtectionData")
  /\ UNCHANGED << epoch, initialized, sessionType, setUp, needKeySub, pmKeySystem, nTrig, nOps >>

(* ---------------------------- specification ---------------------------- *)
Init ==
  /\ keySystem = Undefined
  /\ pendingNeedKeyData = << >>
  /\ initialized = FALSE
  /\ xhrLicense = 0
  /\ protDataSet = [defined |-> FALSE, data |-> [k \in KS |-> NullProtData]]
  /\ sessionType = [k \in KS |-> "temporary"]
  /\ setUp = TRUE
  /\ needKeySub = FALSE
  /\ subsAccess = << >>
  /\ subsSelected = << >>
  /\ accessReqs = << >>
  /\ selectReqs = << >>
  /\ pmKeySystem = Undefined
  /\ sessions = << >>
  /\ xhrs = << >>
  /\ op = "setup"
  /\ out = << >>
  /\ replayed = << >>
  /\ enqSel = << >>
  /\ nSel = 0
  /\ nFail = 0
  /\ epoch = 0
  /\ csLog = [d \in 1..2 |-> 0]
  /\ nTrig = 0
  /\ nOps = 0
  /\ args = << >>
  /\ askedType = "none"
  /\ attached = FALSE

HandlerIds(subs) == {subs[i].id : i \in 1..Len(subs)}

RequestedBy(r) == {r.ks[j] : j \in 1..Len(r.ks)}

\* the selection and session operations
Next ==
  \/ nOps < MaxOps /\ \E b \in Batches \cup {<< >>}, ty \in {"cenc", "webm"} : onNeedKey(ty, b)
  \/ nOps < MaxOps /\ \E b \in Batches \cup {<< >>} : init(b)
  \/ \E el \in {"video", Null, Undefined} : setMediaElement(el)
  \/ \E i \in 1..Len(accessReqs) :
       \E result \in {"denied"} \cup RequestedBy(accessReqs[i]) :
         \E thr \in SUBSET HandlerIds(subsAccess) : KeySystemAccessComplete(i, result, thr)
  \/ \E i \in 1..Len(selectReqs), ok \in BOOLEAN :
       \E thr \in SUBSET (1..Len(pendingNeedKeyData)) : KeySystemSelected(i, ok, thr)
  \/ nOps < MaxOps /\ \E d \in InitDatas, c \in {"c1"}, throws \in BOOLEAN :
                        createKeySessionDirect(d, c, throws)
  \/ \E i \in 1..Len(sessions), ok \in BOOLEAN : onKeySessionCreated(i, ok)
  \/ nOps < MaxOps /\ teardown
  \/ setup

Spec == Init /\ [][Next]_vars

\* the license pipeline: one negotiation from the manifest, the protection
\* data set before the first session exists, then key messages, the ends of
\* their exchanges and teardown
LicBatches == { << Cand("A", I2, "c1"), Cand("B", I2, "c2") >> }

NextLic ==
  \/ nOps < MaxLicOps /\ \E b \in LicBatches : init(b)
  \/ \E i \in 1..Len(accessReqs) :
       \E result \in RequestedBy(accessReqs[i]) : KeySystemAccessComplete(i, result, {})
  \/ \E i \in 1..Len(selectReqs) : KeySystemSelected(i, TRUE, {})
  \/ nOps < MaxLicOps /\ \E d \in {I1} : createKeySessionDirect(d, "c1", FALSE)
  \/ ~protDataSet.defined /\ sessions = << >>
       /\ \E data \in ProtDataSets : setProtectionData(data)
  \/ nOps < MaxLicOps /\ \E c \in KeyMessageCases(1..Len(sessions)) : onKeyMessage(c)
  \/ \E id \in 1..Len(xhrs), r \in Responses :
       XhrDone(id, "load", r.status, r.response, r.licenseMessage)
  \/ \E id \in 1..Len(xhrs) : XhrDone(id, "error", 0, Null, Null)
  \/ nOps < MaxLicOps /\ teardown

SpecLic == Init /\ [][NextLic]_vars

\* the life of the sessions: one negotiation from the manifest, sessions
\* created by the application, the session type set by the application and
\* the events of the gateway about the sessions
NextSes ==
  \/ nOps < MaxSesOps /\ \E b \in LicBatches : init(b)
  \/ \E i \in 1..Len(accessReqs) :
       \E result \in RequestedBy(accessReqs[i]) : KeySystemAccessComplete(i, result, {})
  \/ \E i \in 1..Len(selectReqs) : KeySystemSelected(i, TRUE, {})
  \/ nOps < MaxSesOps /\ \E d \in {I1, I3} : createKeySessionDirect(d, "c1", FALSE)
  \/ \E t \in SessionTypes : setSessionType(t)
  \/ \E i \in 1..Len(sessions), ok \in BOOLEAN : onKeySessionCreated(i, ok)
  \/ \E i \in 1..Len(sessions), error \in BOOLEAN : onKeySessionClosed(i, error)
  \/ \E i \in 1..Len(sessions), error \in BOOLEAN : onKeySessionRemoved(i, error)
  \/ \E i \in 1..Len(sessions), error \in {Null} \cup KeyErrorCodes :
       onKeyStatusesChanged(i, error)
  \/ \E error \in BOOLEAN : onServerCertificateUpdated(error)
  \/ \E i \in 1..Len(sessions) : onKeyAdded(i)
  \/ \E i \in 1..Len(sessions), code \in KeyErrorCodes : onKeyError(i, code)
  \/ nOps < MaxSesOps /\ teardown

SpecSes == Init /\ [][NextSes]_vars

(* ------------------------------- claims -------------------------------- *)
TriggerOps == {"onNeedKey", "init"}
ResponseOps == {"accessComplete", "systemSelected"}

\* the step called selectKeySystem
IsTrigger == op' \in TriggerOps /\ nTrig' = nTrig + 1

HasOut(o, P(_)) == \E i \in 1..Len(o) : P(o[i])

IsSuccessEvent(e) == e.t = "event" /\ e.type = "keySystemSelected" /\ e.error = Null
IsAccessDenied(e) ==
  e.t = "notify" /\ e.name = "protectionError" /\ e.code = "MEDIA_KEYSYSERR_ACCESS_DENIED"
IsRequestAccess(e) == e.t = "requestAccess"

\* C1: under selection triggers and negotiation responses the selection
\* state changes only along Unset -> Selecting (a trigger), Selecting ->
\* Selected(X) (a successful system-selected response) and Selecting ->
\* Unset (access denied or selection failed); once it is Selected(X) no
\* trigger and no response changes it.
C1_SelectionEdges ==
  [][ op' \in TriggerOps \cup ResponseOps =>
        /\ keySystem' # keySystem =>
             \/ /\ keySystem = Undefined /\ keySystem' = Null
                /\ IsTrigger
             \/ /\ keySystem = Null /\ keySystem' \in KS
                /\ op' = "systemSelected" /\ HasOut(out', IsSuccessEvent)
             \/ /\ keySystem = Null /\ keySystem' = Undefined
                /\ op' \in ResponseOps /\ HasOut(out', IsAccessDenied)
        /\ keySystem \in KS => keySystem' = keySystem ]_vars

\* a re-confirmation was denied while a key system is selected
C1_Witness ==
  /\ keySystem \in KS
  /\ op = "accessComplete"
  /\ HasOut(out, LAMBDA e : e.t = "event" /\ e.error # Null)

\* C2: a trigger that arrives while the state is Selecting appends its
\* batch to the queue, issues no access request, registers no handler and
\* leaves the state Selecting.
C2_QueueWhileSelecting ==
  [][ IsTrigger /\ keySystem = Null =>
        /\ pendingNeedKeyData' = Append(pendingNeedKeyData, out'[1].supportedKS)
        /\ ~HasOut(out', IsRequestAccess)
        /\ accessReqs' = accessReqs /\ selectReqs' = selectReqs
        /\ subsAccess' = subsAccess /\ subsSelected' = subsSelected
        /\ keySystem' = Null ]_vars

\* a trigger has arrived during a negotiation: it issued no request and
\* its batch is queued behind the batch that started the negotiation
C2_Witness ==
  /\ keySystem = Null
  /\ op \in TriggerOps
  /\ Len(out) = 1 /\ out[1].t = "selectKeySystem"
  /\ Len(pendingNeedKeyData) >= 2
  /\ pendingNeedKeyData[Len(pendingNeedKeyData)] = out[1].supportedKS
  /\ Len(accessReqs) + Len(selectReqs) = 1

QueueIdx == 1..Len(pendingNeedKeyData)

HasCandidate(batch, ks) == \E k \in 1..Len(batch) : batch[k].ks = ks

\* the step before this state was the successful system-selected response
JustSelected == op = "systemSelected" /\ keySystem \in KS

CksCalls(o) == SelectSeq(o, LAMBDA e : e.t = "createKeySession")

\* the call uses the first candidate of the batch whose system is ks
UsesFirstCandidate(call, batch, ks) ==
  \E k \in 1..Len(batch) :
    /\ batch[k].ks = ks
    /\ \A j \in 1..(k - 1) : batch[j].ks # ks
    /\ call.initData = batch[k].initData
    /\ call.cdmData = batch[k].cdmData

\* C4: when selection succeeds with X, a queued batch with a candidate for
\* X causes one createKeySession call, with the data of its first
\* candidate for X; a batch without one causes no call, no event and no
\* fault; whatever reaches the gateway is X's part of that data.
C4_FirstCandidatePerBatch ==
  JustSelected =>
    /\ \A i \in QueueIdx :
         LET mine == SelectSeq(CksCalls(out), LAMBDA c : c.from = i)
         IN  IF HasCandidate(pendingNeedKeyData[i], keySystem)
             THEN /\ Len(mine) = 1
                  /\ UsesFirstCandidate(mine[1], pendingNeedKeyData[i], keySystem)
             ELSE Len(mine) = 0
    /\ IsSuccessEvent(out[1])
    /\ \A p \in 2..Len(out) :
         /\ out[p].t \in {"createKeySession", "createSession", "notify"}
         /\ out[p].t = "createSession" =>
              /\ out[p - 1].t = "createKeySession"
              /\ out[p].initData = out[p - 1].initData[keySystem]
              /\ out[p].cdmData = out[p - 1].cdmData
         /\ out[p].t = "notify" => out[p - 1].t \in {"createKeySession", "createSession"}

\* system A was selected with a batch for A and a batch without one queued
C4_Witness ==
  /\ JustSelected
  /\ keySystem = "A"
  /\ \E i \in QueueIdx : ~HasCandidate(pendingNeedKeyData[i], "A")
  /\ \E i \in QueueIdx : HasCandidate(pendingNeedKeyData[i], "A")

AllHaveCandidate == \A i \in QueueIdx : HasCandidate(pendingNeedKeyData[i], keySystem)

GatewayCalls(o) == SelectSeq(o, LAMBDA e : e.t = "createSession")

\* C5 as stated: N queued batches that all have a candidate for X give
\* exactly N createSession calls at the gateway.
C5_OneGatewayCallPerBatch ==
  (JustSelected /\ AllHaveCandidate) =>
    Len(GatewayCalls(out)) = Len(pendingNeedKeyData)

\* C5 amended: N queued batches that all have a candidate for X give
\* exactly N createKeySession calls, the i-th for the first X candidate of
\* batch i; such a call reaches the gateway exactly when X's part of its
\* data is not empty and no session created earlier in the replay has
\* byte-equal data, so N calls reach the gateway when the N parts are
\* non-empty and pairwise different.
C5_OneCallPerBatch ==
  (JustSelected /\ AllHaveCandidate) =>
    /\ Len(CksCalls(out)) = Len(pendingNeedKeyData)
    /\ \A i \in QueueIdx :
         /\ CksCalls(out)[i].from = i
         /\ UsesFirstCandidate(CksCalls(out)[i], pendingNeedKeyData[i], keySystem)
    /\ \A p \in 1..Len(out) :
         out[p].t = "createKeySession" =>
           ( (p < Len(out) /\ out[p + 1].t = "createSession")
             <=> /\ out[p].initData[keySystem] # 0
                 /\ ~\E q \in 1..(p - 1) :
                       /\ out[q].t = "createSession"
                       /\ ~out[q].threw
                       /\ out[q].initData = out[p].initData[keySystem] )

\* candidates [A, B], B granted, two queued batches with both systems: two
\* createSession calls reach the gateway
C5_Witness ==
  /\ JustSelected
  /\ keySystem = "B"
  /\ Len(pendingNeedKeyData) = 2
  /\ \A i \in QueueIdx : /\ HasCandidate(pendingNeedKeyData[i], "A")
                         /\ HasCandidate(pendingNeedKeyData[i], "B")
  /\ Len(GatewayCalls(out)) = 2

ListedIdx(sess) == {i \in 1..Len(sess) : Listed(sess[i])}

\* C6 as stated: createSession is never invoked twice with byte-equal
\* initialization data.
C6_NeverTwice == \A d \in DOMAIN csLog : csLog[d] <= 1

\* C6 amended: createSession is never invoked with data byte-equal to the
\* data of a session the gateway lists at that time, also when the creation
\* of that session is still pending; no two listed sessions have byte-equal
\* data.
C6_NeverForListedData ==
  /\ [](\A i, j \in ListedIdx(sessions) :
          i # j => ~initDataEquals(sessions[i].initData, sessions[j].initData))
  /\ [][ \A p \in 1..Len(out') :
           out'[p].t = "createSession" =>
             /\ \A i \in ListedIdx(sessions) :
                  ~initDataEquals(out'[p].initData, sessions[i].initData)
             /\ \A q \in 1..(p - 1) :
                  (out'[q].t = "createSession" /\ ~out'[q].threw)
                    => ~initDataEquals(out'[p].initData, out'[q].initData) ]_vars

\* createKeySession was a no-op because a session whose creation is still
\* pending has the same data
C6_Witness ==
  /\ op = "createKeySession"
  /\ Len(out) = 1
  /\ out[1].initData[keySystem] # 0
  /\ \E i \in 1..Len(sessions) :
       /\ sessions[i].state = "pending"
       /\ sessions[i].initData = out[1].initData[keySystem]

IsNoChallenge(e) ==
  e.t = "notify" /\ e.name = "protectionError" /\ e.code = "MEDIA_KEYMESSERR_NO_CHALLENGE"
IsLicenserError(e) ==
  e.t = "notify" /\ e.name = "protectionError" /\ e.code = "MEDIA_KEYMESSERR_LICENSER_ERROR"
IsUpdateSession(e) == e.t = "updateSession"

\* C7: a key message whose message is absent or has length zero raises
\* exactly one NoChallenge fault, creates no XMLHttpRequest, sends nothing
\* and updates no session.
C7_EmptyMessageNoChallenge ==
  [][ (op' = "onKeyMessage" /\ out'[1].data.message \in {Null, "empty"}) =>
        /\ Len(out') = 2
        /\ IsNoChallenge(out'[2])
        /\ xhrs' = xhrs
        /\ xhrLicense' = xhrLicense
        /\ sessions' = sessions ]_vars

\* a key message of length zero arrived with protection data configured
C7_Witness ==
  /\ op = "onKeyMessage"
  /\ out[1].data.message = "empty"
  /\ protDataSet.defined
  /\ Len(out) = 2 /\ IsNoChallenge(out[2])

\* C8 as stated: teardown aborts every outstanding exchange, and no
\* LicenseServerError is raised at or after teardown.
C8_TeardownAbortsAll ==
  [][ /\ op' = "teardown" =>
           \A id \in 1..Len(xhrs) :
             xhrs[id].state = "sent" => (xhrs'[id].aborted /\ xhrs'[id].state = "done")
      /\ ~setUp' => ~HasOut(out', IsLicenserError) ]_vars

\* C9 as stated: an exchange that completes with a status in 200..299 and
\* a response that parses to key material calls updateSession once with
\* its session token and the material, and raises no LicenseServerError.
C9_SuccessInRange ==
  (/\ op = "xhrDone"
   /\ out[Len(out)].kind = "load"
   /\ out[Len(out)].status \in 200..299
   /\ out[Len(out)].licenseMessage # Null) =>
    /\ Len(SelectSeq(out, IsUpdateSession)) = 1
    /\ SelectSeq(out, IsUpdateSession)[1].sessionToken = out[Len(out)].sessionToken
    /\ SelectSeq(out, IsUpdateSession)[1].material = out[Len(out)].licenseMessage
    /\ ~HasOut(out, IsLicenserError)

\* the exchange ended with a transport error, a status outside 200..299 or
\* a response that parses to nothing
FailedEnd(d) ==
  d.kind = "error" \/ d.status \notin 200..299 \/ d.licenseMessage = Null

\* C10: an exchange that teardown did not abort and that ends with a
\* status outside 200..299, a transport error or an unparsable response
\* raises exactly one LicenseServerError with the URL of the request, the
\* status and the parsed error body if there is a body; updateSession is
\* not called.
C10_FailureRaisedOnce ==
  [][ (op' = "xhrDone" /\ FailedEnd(out'[Len(out')])) =>
        LET d == out'[Len(out')]
            faults == SelectSeq(out', IsLicenserError)
        IN  /\ ~xhrs[d.id].aborted
            /\ Len(faults) = 1
            /\ faults[1].data.url = xhrs[d.id].url
            /\ faults[1].data.status = d.status
            /\ faults[1].data.error =
                 (IF d.response # Null THEN getErrorResponse(d.response) ELSE "")
            /\ ~HasOut(out', IsUpdateSession) ]_vars

\* an exchange ended with status 500 and a body: one LicenseServerError
C10_Witness ==
  /\ op = "xhrDone"
  /\ out[Len(out)].status = 500
  /\ out[Len(out)].response = "body"
  /\ Len(SelectSeq(out, IsLicenserError)) = 1
  /\ SelectSeq(out, IsLicenserError)[1].data.status = 500

IsXhrNew(e) == e.t = "xhrNew"
IsXhrSend(e) == e.t = "xhrSend"
IsNoRequestBody(e) ==
  IsNoChallenge(e) /\ e.data = "No license challenge from CDM key message"

\* C11 as stated: when the transform of a non-empty key message into a
\* request body yields nothing, a NoChallenge fault is raised and the
\* exchange is not sent.
C11_NoBodyNotSent ==
  (op = "onKeyMessage" /\ HasOut(out, IsNoRequestBody)) =>
    /\ ~HasOut(out, IsXhrSend)
    /\ \A id \in 1..Len(xhrs) : xhrs[id].state # "sent" \/ xhrLicense # id

IsURL(e) == e.t = "url"

\* the URL the precedence of the four sources gives
FirstAvailableURL(protData, messageType, initDataURL, defaultURL) ==
  LET serverURL == protData.serverURL
      configured == IF serverURL.type = "string" /\ serverURL.v # "" THEN serverURL.v
                    ELSE IF serverURL.type = "object" /\ messageType \in DOMAIN serverURL.v
                    THEN serverURL.v[messageType]
                    ELSE Null
  IN  IF protData.present /\ configured # Null THEN configured
      ELSE IF protData.present /\ ~Falsy(protData.laURL) THEN protData.laURL
      ELSE IF ~Falsy(initDataURL) THEN initDataURL
      ELSE defaultURL

\* C12 as stated: the URL handed to the descriptor's post-processing is
\* the first available of the configured server URL, the deprecated
\* single-URL field, the URL of the initialization data and the default
\* URL; post-processing is applied to it and gives the URL used.
C12_FirstAvailableURL ==
  (op = "onKeyMessage" /\ HasOut(out, IsURL)) =>
    LET u == SelectSeq(out, IsURL)[1]
        e == out[1].data
        messageType == IF ~Falsy(e.messageType) THEN e.messageType ELSE "license-request"
    IN  /\ u.chosen = FirstAvailableURL(getProtData(keySystem), messageType,
                                        u.initDataURL, e.defaultURL)
        /\ u.url = getServerURLFromMessage(u.chosen, u.post)

IsNoLicenseURL(e) ==
  e.t = "notify" /\ e.name = "protectionError"
  /\ e.code = "MEDIA_KEYMESSERR_URL_LICENSER_UNKNOWN"

\* C13: when the URL after the descriptor's post-processing is empty,
\* exactly one NoLicenseURL fault is raised, no request is opened or sent
\* and no session is updated.
C13_NoURLNoExchange ==
  (/\ op = "onKeyMessage"
   /\ HasOut(out, IsURL)
   /\ SelectSeq(out, IsURL)[1].url \in {Null, Undefined, ""}) =>
    /\ Len(SelectSeq(out, IsNoLicenseURL)) = 1
    /\ ~HasOut(out, IsXhrSend)
    /\ ~HasOut(out, IsUpdateSession)
    /\ xhrs[SelectSeq(out, IsXhrNew)[1].id].state = "unsent"

\* the default URL is undefined and nothing else gives a URL: the fault
C13_Witness ==
  /\ op = "onKeyMessage"
  /\ HasOut(out, IsURL)
  /\ SelectSeq(out, IsURL)[1].url = Undefined
  /\ HasOut(out, IsNoLicenseURL)

IsClearKeyHook(e) == e.t = "processClearKeyLicenseRequest"

\* C14: when the selected system is ClearKey and the hook returns key
\* material, updateSession is called once with the session token of the
\* message and that material, no XMLHttpRequest is created or sent and the
\* tracked handle is unchanged; when the hook returns nothing the request
\* to the license server follows.
C14_ClearKeyNoNetwork ==
  [][ (op' = "onKeyMessage" /\ HasOut(out', IsClearKeyHook)) =>
        LET hook == SelectSeq(out', IsClearKeyHook)[1]
            updates == SelectSeq(out', IsUpdateSession)
        IN  IF hook.result # Null
            THEN /\ Len(updates) = 1
                 /\ updates[1].sessionToken = out'[1].data.sessionToken
                 /\ updates[1].material = hook.result
                 /\ ~HasOut(out', IsXhrNew)
                 /\ ~HasOut(out', IsXhrSend)
                 /\ xhrs' = xhrs
                 /\ xhrLicense' = xhrLicense
            ELSE /\ updates = << >>
                 /\ HasOut(out', IsXhrNew) ]_vars

\* the hook returned material while an earlier exchange is tracked
C14_Witness ==
  /\ op = "onKeyMessage"
  /\ HasOut(out, IsClearKeyHook)
  /\ SelectSeq(out, IsClearKeyHook)[1].result = "clearkeys"
  /\ HasOut(out, IsUpdateSession)
  /\ xhrLicense # 0

IsPublicEvent(e) == e.t = "event"
IsFailureEvent(e) == e.t = "event" /\ e.type = "keySystemSelected" /\ e.error # Null
IsCreateSession(e) == e.t = "createSession"
IsCreateKeySession(e) == e.t = "createKeySession"

\* the step ends the initial negotiation without a selected system: access
\* is denied (nothing is handed to the gateway's selection step) or the
\* selection failed
NegotiationFailed ==
  /\ keySystem = Null
  /\ \/ op' = "accessComplete" /\ selectReqs' = selectReqs
     \/ op' = "systemSelected" /\ keySystem' \notin KS

\* C15: a denied or failed initial negotiation reverts the selection state
\* to Unset, raises exactly one AccessDenied fault with the systems named
\* in the request, emits one public failure event unless the negotiation
\* was started by init(), and creates no session.
C15_FailedNegotiation ==
  [][ NegotiationFailed =>
        LET h == subsSelected[1]
        IN  /\ keySystem' = Undefined
            /\ Len(SelectSeq(out', IsAccessDenied)) = 1
            /\ SelectSeq(out', IsAccessDenied)[1].data = h.keySystemsInfo
            /\ op' = "accessComplete" =>
                 SelectSeq(out', IsAccessDenied)[1].data = accessReqs[1].ks
            /\ Len(SelectSeq(out', IsPublicEvent)) = (IF h.fromManifest THEN 0 ELSE 1)
            /\ \A i \in 1..Len(out') : IsPublicEvent(out'[i]) => IsFailureEvent(out'[i])
            /\ ~HasOut(out', IsCreateSession)
            /\ ~HasOut(out', IsCreateKeySession)
            /\ sessions' = sessions ]_vars

\* the access of a negotiation started by init() was denied: the fault and
\* no public event
C15_Witness ==
  /\ op = "accessComplete"
  /\ keySystem = Undefined
  /\ HasOut(out, IsAccessDenied)
  /\ ~HasOut(out, IsPublicEvent)
  /\ nFail > 0

\* C16 as stated: in state Selected(X) a trigger with a candidate for X
\* issues one access request naming only X, and the response to a request
\* creates a session for the candidate of that request's trigger only: a
\* step that answers one request calls createKeySession at most once, for
\* the handler registered with that request, emits at most one public
\* event and leaves the handlers of the other requests registered.
C16_OwnResponseOnly ==
  [][ /\ (keySystem \in KS /\ IsTrigger /\ FirstMatch(out'[1].supportedKS, keySystem) # 0) =>
           /\ Len(SelectSeq(out', IsRequestAccess)) = 1
           /\ SelectSeq(out', IsRequestAccess)[1].ks = << keySystem >>
      /\ (keySystem \in KS /\ op' = "accessComplete") =>
           \E i \in 1..Len(accessReqs) :
             /\ accessReqs' = RemoveAt(accessReqs, i)
             /\ subsAccess' = Unsubscribe(subsAccess, accessReqs[i].id)
             /\ Len(SelectSeq(out', IsPublicEvent)) <= 1
             /\ \A k \in 1..Len(out') :
                  IsCreateKeySession(out'[k]) =>
                    \E j \in 1..Len(subsAccess) :
                      /\ subsAccess[j].id = accessReqs[i].id
                      /\ out'[k].initData = subsAccess[j].cand.initData
                      /\ out'[k].cdmData = subsAccess[j].cand.cdmData
             /\ Len(SelectSeq(out', IsCreateKeySession)) <= 1 ]_vars

\* the batch has no candidate for the system ks
NoCandidate(supportedKS, ks) == \A k \in 1..Len(supportedKS) : supportedKS[k].ks # ks

\* C17: in state Selected(X) a trigger whose batch has no candidate for X
\* issues no access request, registers no handler, emits no event and no
\* fault, creates no session and leaves the selection state and the queue
\* unchanged.
C17_NoCandidateNoEffect ==
  [][ (keySystem \in KS /\ IsTrigger /\ NoCandidate(out'[1].supportedKS, keySystem)) =>
        /\ Len(out') = 1
        /\ UNCHANGED << keySystem, pendingNeedKeyData, subsAccess, subsSelected,
                        accessReqs, selectReqs, sessions, xhrs, xhrLicense >> ]_vars

\* a need-key batch without a candidate for the selected system arrived
C17_Witness ==
  /\ keySystem \in KS
  /\ op = "onNeedKey"
  /\ Len(out) = 1
  /\ out[1].t = "selectKeySystem"
  /\ NoCandidate(out[1].supportedKS, keySystem)

IsKeyMessageEvent(e) == e.t = "event" /\ e.type = "keyMessage"

\* C18: every key message, an empty one and one without a descriptor
\* included, is re-emitted once as the public key-message event carrying
\* the message, before any fault, session update or request it causes.
C18_KeyMessageEventFirst ==
  op = "onKeyMessage" =>
    /\ Len(out) >= 1
    /\ out[1] = PublicEvent("keyMessage", Null, args[1].e)
    /\ Len(SelectSeq(out, IsKeyMessageEvent)) = 1

\* a key message without bytes and without a descriptor: the event, then
\* the fault
C18_Witness ==
  /\ op = "onKeyMessage"
  /\ args[1].e.message = Null
  /\ args[1].licenseServerData = Null
  /\ Len(out) = 2
  /\ IsKeyMessageEvent(out[1])
  /\ IsNoChallenge(out[2])

\* C19: a non-empty key message without a license-service descriptor
\* raises no fault, creates and sends no request, updates no session and
\* leaves the tracked handle unchanged.
C19_NoDescriptorSilent ==
  [][ (/\ op' = "onKeyMessage"
       /\ args'[1].e.message \notin {Null, "empty"}
       /\ args'[1].licenseServerData = Null) =>
        /\ Len(out') = 1
        /\ IsKeyMessageEvent(out'[1])
        /\ xhrs' = xhrs
        /\ xhrLicense' = xhrLicense
        /\ sessions' = sessions ]_vars

\* a message without a descriptor arrived while an exchange is tracked
C19_Witness ==
  /\ op = "onKeyMessage"
  /\ args[1].e.message = "bytes"
  /\ args[1].licenseServerData = Null
  /\ Len(out) = 1
  /\ xhrLicense # 0

IsProtectionError(e) == e.t = "notify" /\ e.name = "protectionError"

\* C20 as stated: createKeySession with initialization data that has
\* nothing for the selected system raises a fault on the protection-error
\* channel and never calls the gateway's createSession.
C20_NoInitDataFault ==
  (/\ op = "createKeySession"
   /\ keySystem \in KS
   /\ getPSSHForKeySystem(keySystem, out[1].initData) = 0) =>
    /\ HasOut(out, IsProtectionError)
    /\ ~HasOut(out, IsCreateSession)

IsThrownCreate(e) == e.t = "createSession" /\ e.threw
IsCreationException(e) ==
  e.t = "notify" /\ e.name = "keySessionCreated" /\ e.code = "exception"

\* C21: an exception of the gateway's createKeySession is converted into
\* one notification and goes no further: the caller's state (selection
\* state, queue) is as without it, and the replay loop goes on with the
\* remaining batches.
C21_ExceptionConverted ==
  [][ HasOut(out', IsThrownCreate) =>
        /\ \A p \in 1..Len(out') :
             IsThrownCreate(out'[p]) =>
               p < Len(out') /\ IsCreationException(out'[p + 1])
        /\ Len(SelectSeq(out', IsCreationException)) = Len(SelectSeq(out', IsThrownCreate))
        /\ pendingNeedKeyData' = pendingNeedKeyData
        /\ op' \in {"createKeySession", "accessComplete"} => keySystem' = keySystem
        /\ op' = "systemSelected" =>
             /\ keySystem' \in KS
             /\ \A i \in QueueIdx :
                  /\ replayed'[i] = replayed[i] + 1
                  /\ HasCandidate(pendingNeedKeyData[i], keySystem') =>
                       \E p \in 1..Len(out') :
                         IsCreateKeySession(out'[p]) /\ out'[p].from = i ]_vars

\* the gateway raised for the first queued batch and the replay went on to
\* create the session of the second
C21_Witness ==
  /\ JustSelected
  /\ Len(pendingNeedKeyData) >= 2
  /\ \E p \in 1..Len(out) :
       /\ IsThrownCreate(out[p])
       /\ \E q \in (p + 1)..Len(out) : out[q].t = "createSession" /\ ~out[q].threw

IsLicenseRequestComplete(e) == e.t = "event" /\ e.type = "licenseRequestComplete"

\* C22 as stated: every license request that completes, by success or by
\* failure, delivers one public license-request-complete event with the
\* session token and the message type of the request.
C22_LicenseRequestComplete ==
  op = "xhrDone" =>
    /\ Len(SelectSeq(out, IsLicenseRequestComplete)) = 1
    /\ SelectSeq(out, IsLicenseRequestComplete)[1].data.sessionToken
         = out[Len(out)].sessionToken

SessionEventOps ==
  [ onKeySessionCreated |-> "keySessionCreated",
    onKeySessionClosed |-> "keySessionClosed",
    onKeySessionRemoved |-> "keySessionRemoved",
    onKeyStatusesChanged |-> "keyStatusesChanged",
    onServerCertificateUpdated |-> "serverCertificateUpdated" ]

\* C23 as stated: each session-created, session-closed, session-removed,
\* key-status-changed and certificate-updated event of the gateway is followed
\* by exactly one public event of the corresponding type.
C23_SessionEventsTranslated ==
  op \in DOMAIN SessionEventOps =>
    /\ Len(SelectSeq(out, IsPublicEvent)) = 1
    /\ SelectSeq(out, IsPublicEvent)[1].type = SessionEventOps[op]

\* C24 as stated: once setSessionType(t) was called with a key system
\* selected, every later session-create request to the gateway passes t.
C24_SessionTypePassed ==
  askedType # "none" =>
    \A p \in 1..Len(out) : IsCreateSession(out[p]) => out[p].sessionType = askedType

\* the access requests in flight that belong to an initial negotiation: every
\* one while no system is selected, and those whose ksSelected handler waits
InitialAccessReqs ==
  { i \in 1..Len(accessReqs) :
      \/ keySystem \notin KS
      \/ \E j \in 1..Len(subsAccess) :
           subsAccess[j].kind = "ksSelected" /\ subsAccess[j].id = accessReqs[i].id }

InitialInFlight == Cardinality(InitialAccessReqs) + Len(selectReqs)

AllSystemsOf(supportedKS) == [i \in 1..Len(supportedKS) |-> supportedKS[i].ks]

\* C25: a trigger in state Unset issues exactly one negotiation request, which
\* lists every candidate of the triggering batch in order, and while no
\* teardown has happened at most one initial negotiation (access request or
\* system-selection step) is in flight.
C25_OneNegotiation ==
  /\ [](epoch = 0 => InitialInFlight <= 1)
  /\ [][ IsTrigger /\ keySystem = Undefined =>
           /\ Len(SelectSeq(out', IsRequestAccess)) = 1
           /\ SelectSeq(out', IsRequestAccess)[1].ks = AllSystemsOf(out'[1].supportedKS)
           /\ accessReqs' = Append(accessReqs,
                                   [id |-> nTrig', ks |-> AllSystemsOf(out'[1].supportedKS)])
           /\ selectReqs' = selectReqs ]_vars

\* a retry after a failed negotiation: the one request in flight is the
\* retry's and names both candidates of its batch
C25_Witness ==
  /\ epoch = 0 /\ nFail >= 1
  /\ op \in TriggerOps /\ keySystem = Null
  /\ InitialInFlight = 1 /\ Len(accessReqs) = 1
  /\ HasOut(out, IsRequestAccess)
  /\ Len(out[1].supportedKS) = 2
  /\ accessReqs[1].ks = AllSystemsOf(out[1].supportedKS)

IsXhrAbort(e) == e.t = "xhrAbort"

\* the exchange that ended in an xhrDone step
DoneRecord(o) == o[Len(o)]

SucceededEnd(d) == d.kind = "load" /\ d.status = 200 /\ d.licenseMessage # Null

\* C26: a key message that starts a license exchange while an earlier one is
\* outstanding leaves every earlier exchange as it was (none is aborted) and
\* makes the new exchange the tracked one; an exchange that ends while the
\* controller is set up applies its own outcome, success as one update of the
\* session of its own key message and failure as one fault with its own URL,
\* and touches no other exchange; the tracked handle is one request or none.
C26_OverlappingExchanges ==
  /\ [](xhrLicense \in 0..Len(xhrs))
  /\ [][ (/\ op' = "onKeyMessage"
          /\ HasOut(out', IsXhrSend)
          /\ \E id \in 1..Len(xhrs) : xhrs[id].state = "sent") =>
           /\ Len(xhrs') = Len(xhrs) + 1
           /\ \A id \in 1..Len(xhrs) : xhrs'[id] = xhrs[id]
           /\ ~HasOut(out', IsXhrAbort)
           /\ xhrLicense' = Len(xhrs')
           /\ xhrs'[xhrLicense'].state = "sent" ]_vars
  /\ [][ op' = "xhrDone" /\ setUp =>
           LET d == DoneRecord(out')
               updates == SelectSeq(out', IsUpdateSession)
               faults == SelectSeq(out', IsLicenserError)
           IN  /\ xhrs[d.id].state = "sent"
               /\ d.sessionToken = xhrs[d.id].sessionToken
               /\ \A j \in 1..Len(xhrs) : j # d.id => xhrs'[j] = xhrs[j]
               /\ IF SucceededEnd(d)
                  THEN /\ Len(updates) = 1 /\ Len(faults) = 0
                       /\ updates[1].sessionToken = xhrs[d.id].sessionToken
                  ELSE /\ Len(updates) = 0 /\ Len(faults) = 1
                       /\ faults[1].data.url = xhrs[d.id].url ]_vars

\* the earlier of two overlapping exchanges has just succeeded for its own
\* session while the later one, of another session, is still outstanding
C26_Witness ==
  /\ op = "xhrDone" /\ setUp
  /\ DoneRecord(out).id = 1
  /\ SucceededEnd(DoneRecord(out))
  /\ HasOut(out, IsUpdateSession)
  /\ Len(xhrs) = 2 /\ xhrs[2].state = "sent"
  /\ xhrs[2].sessionToken # DoneRecord(out).sessionToken

\* the exchanges started so far (sent, ended or not) and the latest of them
StartedXhrs == { id \in 1..Len(xhrs) : xhrs[id].state \in {"sent", "done"} }

LastStarted == CHOOSE id \in StartedXhrs : \A j \in StartedXhrs : j <= id

\* C27 as stated: whenever the most recently started license exchange is
\* still outstanding, the tracked handle refers to it.
C27_TracksLatestExchange ==
  (StartedXhrs # {} /\ xhrs[LastStarted].state = "sent") => xhrLicense = LastStarted

\* the key message of the last step ended without sending an exchange
EndedWithoutSending == op' = "onKeyMessage" /\ ~HasOut(out', IsXhrSend)

\* C28 as stated: a key message that ends without sending an HTTP exchange
\* leaves the tracked exchange handle exactly as it was before the message.
C28_NoSendKeepsHandle ==
  [][ EndedWithoutSending => xhrLicense' = xhrLicense ]_vars

\* C29 as stated: after teardown the selection state is Unset and the queue of
\* pending batches is empty.
C29_TeardownClearsQueue ==
  op = "teardown" => keySystem = Undefined /\ pendingNeedKeyData = << >>

\* the step delivers a denial to the handlers of re-confirmation requests
DeniedReconfirmation ==
  /\ keySystem \in KS
  /\ op' = "accessComplete"
  /\ args'[1].event.error

IsNotification(e) == e.t = "notify"

C31_OnlyFirstInit ==
  [][ op' = "init" =>
        /\ initialized'
        /\ initialized =>
             /\ out' = << >>
             /\ UNCHANGED << keySystem, pendingNeedKeyData, xhrLicense, protDataSet,
                             sessionType, setUp, needKeySub, subsAccess, subsSelected,
                             accessReqs, selectReqs, pmKeySystem, sessions, xhrs,
                             nTrig >> ]_vars

\* the first init() found no candidate, the controller was torn down and set
\* up again, and a later init() with candidates started nothing
C31_Witness ==
  /\ op = "init" /\ initialized /\ setUp
  /\ epoch >= 1
  /\ Len(args[1].supportedKS) > 0
  /\ nTrig = 0
  /\ keySystem = Undefined /\ pendingNeedKeyData = << >>
  /\ accessReqs = << >> /\ out = << >>

GatewayEventOps ==
  {"onKeySessionCreated", "onKeySessionClosed", "onKeySessionRemoved",
   "onKeyStatusesChanged", "onServerCertificateUpdated", "onKeyError"}

\* the faults the claim assigns to the gateway event handled last
ExpectedFaults ==
  CASE op = "onKeySessionCreated" ->
         IF args[1].error
         THEN << ProtectionError("MEDIA_KEYMESSERR_NO_SESSION", "Failed to create key session") >>
         ELSE << >>
    [] op = "onServerCertificateUpdated" ->
         IF args[1].error
         THEN << ProtectionError("MEDIA_KEYERR_SERVER_CERTIFICATE",
                                 "Failed to set server certificate") >>
         ELSE << >>
    [] op = "onKeyError" ->
         << ProtectionError(args[1].error, ErrorMessages[args[1].error]) >>
    [] op = "onKeyStatusesChanged" ->
         IF args[1].error # Null
         THEN << ProtectionError(args[1].error, ErrorMessages[args[1].error]) >>
         ELSE << >>
    [] OTHER -> << >>

\* C32: a gateway event yields exactly these notifications and nothing else:
\* session-created with an error, one session-creation fault;
\* certificate-updated with an error, one server-certificate fault; key-error,
\* one fault with the gateway's code and message; key-status-changed with an
\* error, one fault with the error's code; session-closed and session-removed
\* with an error, and every event without an error, none. None of them
\* changes the selection state or the pending queue.
C32_GatewayErrorsToFaults ==
  [][ op' \in GatewayEventOps =>
        /\ out' = ExpectedFaults'
        /\ keySystem' = keySystem
        /\ pendingNeedKeyData' = pendingNeedKeyData ]_vars

\* a key-status-changed event with an error of the CDM's output restrictions
\* raised one fault with that code
C32_Witness ==
  /\ op = "onKeyStatusesChanged"
  /\ args[1].error = "MEDIA_KEYERR_OUTPUT"
  /\ Len(out) = 1 /\ IsProtectionError(out[1])
  /\ out[1].code = "MEDIA_KEYERR_OUTPUT"
  /\ keySystem \in KS /\ Len(pendingNeedKeyData) = 1

\* C33: a need-key event reaches the controller only while a media element
\* is attached (after setMediaElement(element), before the next
\* setMediaElement(null) or teardown); it calls selectKeySystem, once and not
\* from the manifest, only when its initialization data is of type cenc and
\* the extension resolves at least one candidate from it; any other need-key
\* event changes no state, queues nothing and issues no request.
C33_NeedKeyTrigger ==
  [][ op' = "onNeedKey" =>
        /\ attached
        /\ IF args'[1].initDataType = "cenc" /\ Len(args'[1].supportedKS) > 0
           THEN /\ nTrig' = nTrig + 1
                /\ out'[1] = [t |-> "selectKeySystem",
                              supportedKS |-> args'[1].supportedKS,
                              fromManifest |-> FALSE]
           ELSE /\ out' = << >>
                /\ UNCHANGED << keySystem, pendingNeedKeyData, initialized, xhrLicense,
                                protDataSet, sessionType, setUp, needKeySub, subsAccess,
                                subsSelected, accessReqs, selectReqs, pmKeySystem,
                                sessions, xhrs, nTrig >> ]_vars

\* a need-key event whose data is not of type cenc, for which the extension
\* resolves candidates, was ignored
C33_Witness ==
  /\ op = "onNeedKey" /\ attached
  /\ args[1].initDataType = "webm"
  /\ Len(args[1].supportedKS) > 0
  /\ out = << >>
  /\ nTrig = 0 /\ keySystem = Undefined /\ pendingNeedKeyData = << >>
  /\ accessReqs = << >>

====
